---- MODULE Spec2Model ----
(***************************************************************************)
(* Model of src/hashmap.c: a fixed-capacity hash map from integer keys to  *)
(* strings, open addressing with linear probing.  A slot is occupied iff   *)
(* its value is not the empty string; there is no separate occupancy flag  *)
(* and no tombstone.                                                       *)
(***************************************************************************)
EXTENDS Integers, Sequences, FiniteSets, TLC

\* ------------------------------------------------------------------------
\* Bounds of the model
\* ------------------------------------------------------------------------

\* capacity passed to hash_map_create_with; fixed for the life of the map
Capacity == 2

\* keys range over 0..MaxKey; MaxKey >= Capacity makes keys 0 and Capacity
\* share a home slot
MaxKey == 3

Keys == 0 .. MaxKey

\* values are strings; "" is the empty text, (String){0}
Values == {"", "a", "b"}

\* size_t arithmetic wraps; the width is scaled down to 16 bits
SizeModulus == 2 ^ 16

Slots == 0 .. (Capacity - 1)

\* the NULL pointer, as a slot index that is no slot
NULL == -1

\* ------------------------------------------------------------------------
\* The string capability used by the map (hashmap.h / string library)
\* ------------------------------------------------------------------------

\* true iff the text holds no characters
string_empty(s) == s = ""

\* an owned copy with the same characters
string_create_from(s) == s

\* ------------------------------------------------------------------------
\* State
\* ------------------------------------------------------------------------
VARIABLES
    pairs,      \* hm->pairs: slot index -> [key, value]
    size,       \* hm->size
    lastOp,     \* the last call: name, arguments, result, and the map before it
    prevOp,     \* name and key of the call before the last one
    pinned,     \* key -> value of its successful insert, while no remove,
                \* clear or insert_or_assign of that key followed
    cursor,     \* traversal: the pair last returned by first/next, or NULL
    visited,    \* traversal: the slots returned so far, in order
    trav        \* traversal: "idle", "running" or "done"

vars == <<pairs, size, lastOp, prevOp, pinned, cursor, visited, trav>>

\* ------------------------------------------------------------------------
\* Pure helpers, as the code computes them
\* ------------------------------------------------------------------------

\* key % hm->capacity
hash_map_hash(key) == key % Capacity

\* pair++; if (pair == map->pairs + map->capacity) pair = map->pairs;
advance(pair) == IF pair + 1 = Capacity THEN 0 ELSE pair + 1

\* (double)map->size / map->capacity, kept as the exact ratio <<num, den>>
hash_map_load_factor(sz) == <<sz, Capacity>>

\* the guard as the off-by-one reading has it: full one slot early
map_is_full_one_early(sz) ==
    LET lf == hash_map_load_factor(sz) IN lf[1] + 1 >= lf[2]

\* hash_map_load_factor(map) >= 1
map_is_full(sz) ==
    LET lf == hash_map_load_factor(sz) IN lf[1] >= lf[2]

\* map->size++ on size_t
size_inc(sz) == (sz + 1) % SizeModulus

\* map->size-- on size_t
size_dec(sz) == (sz + SizeModulus - 1) % SizeModulus

RECURSIVE find_scan(_, _, _, _)
find_scan(ps, key, pair, i) ==
    IF i >= Capacity THEN NULL
    ELSE IF ps[pair].key = key /\ ~string_empty(ps[pair].value) THEN pair
    ELSE find_scan(ps, key, advance(pair), i + 1)

\* a lookup that matches on the key alone, without the emptiness test
RECURSIVE find_scan_key_only(_, _, _, _)
find_scan_key_only(ps, key, pair, i) ==
    IF i >= Capacity THEN NULL
    ELSE IF ps[pair].key = key THEN pair
    ELSE find_scan_key_only(ps, key, advance(pair), i + 1)

hash_map_find_key_only(ps, key) ==
    find_scan_key_only(ps, key, hash_map_hash(key), 0)

\* a lookup that ends at the first empty slot, as a probe without
\* tombstones classically does
RECURSIVE find_scan_stop_at_empty(_, _, _, _)
find_scan_stop_at_empty(ps, key, pair, i) ==
    IF i >= Capacity THEN NULL
    ELSE IF string_empty(ps[pair].value) THEN NULL
    ELSE IF ps[pair].key = key THEN pair
    ELSE find_scan_stop_at_empty(ps, key, advance(pair), i + 1)

hash_map_find_stop_at_empty(ps, key) ==
    find_scan_stop_at_empty(ps, key, hash_map_hash(key), 0)

\* the slot whose value hash_map_find returns the address of, or NULL
hash_map_find(ps, key) == find_scan(ps, key, hash_map_hash(key), 0)

\* what the caller reads through the pointer hash_map_find returns
find_value(ps, key) ==
    LET p == hash_map_find(ps, key) IN
    IF p = NULL THEN [found |-> FALSE, value |-> ""]
    ELSE [found |-> TRUE, value |-> ps[p].value]

hash_map_contains(ps, key) == hash_map_find(ps, key) # NULL

\* the scan of insert with map->size++ left out
RECURSIVE insert_scan_no_increment(_, _, _, _, _, _)
insert_scan_no_increment(ps, sz, key, value, pair, i) ==
    IF i >= Capacity THEN [pairs |-> ps, size |-> sz, ret |-> FALSE]
    ELSE IF string_empty(ps[pair].value)
         THEN [pairs |-> [ps EXCEPT ![pair] =
                            [key |-> key, value |-> string_create_from(value)]],
               size  |-> sz,
               ret   |-> TRUE]
    ELSE IF ps[pair].key = key THEN [pairs |-> ps, size |-> sz, ret |-> FALSE]
    ELSE insert_scan_no_increment(ps, sz, key, value, advance(pair), i + 1)

\* which return of hash_map_insert's scan is taken: line 90 ("placed"),
\* line 92 ("duplicate") or line 99 ("exhausted")
RECURSIVE insert_scan_exit(_, _, _, _)
insert_scan_exit(ps, key, pair, i) ==
    IF i >= Capacity THEN "exhausted"
    ELSE IF string_empty(ps[pair].value) THEN "placed"
    ELSE IF ps[pair].key = key THEN "duplicate"
    ELSE insert_scan_exit(ps, key, advance(pair), i + 1)

RECURSIVE insert_scan(_, _, _, _, _, _)
insert_scan(ps, sz, key, value, pair, i) ==
    IF i >= Capacity THEN [pairs |-> ps, size |-> sz, ret |-> FALSE]
    ELSE IF string_empty(ps[pair].value)
         THEN [pairs |-> [ps EXCEPT ![pair] =
                            [key |-> key, value |-> string_create_from(value)]],
               size  |-> size_inc(sz),
               ret   |-> TRUE]
    ELSE IF ps[pair].key = key THEN [pairs |-> ps, size |-> sz, ret |-> FALSE]
    ELSE insert_scan(ps, sz, key, value, advance(pair), i + 1)

\* insert whose scan starts at the first slot instead of the home slot
hash_map_insert_from_zero(ps, sz, key, value) ==
    IF map_is_full(sz) THEN [pairs |-> ps, size |-> sz, ret |-> FALSE]
    ELSE insert_scan(ps, sz, key, value, 0, 0)

\* insert without the load-factor guard
hash_map_insert_unguarded(ps, sz, key, value) ==
    insert_scan(ps, sz, key, value, hash_map_hash(key), 0)

hash_map_insert(ps, sz, key, value) ==
    IF map_is_full(sz) THEN [pairs |-> ps, size |-> sz, ret |-> FALSE]
    ELSE insert_scan(ps, sz, key, value, hash_map_hash(key), 0)

\* insert_or_assign that applies the full-container rule to both paths
hash_map_insert_or_assign_guarded(ps, sz, key, value) ==
    LET existing_value == hash_map_find(ps, key) IN
    IF map_is_full(sz) \/ existing_value = NULL
    THEN hash_map_insert(ps, sz, key, value)
    ELSE [pairs |-> [ps EXCEPT ![existing_value].value = string_create_from(value)],
          size  |-> sz,
          ret   |-> TRUE]

hash_map_insert_or_assign(ps, sz, key, value) ==
    LET existing_value == hash_map_find(ps, key) IN
    IF existing_value = NULL THEN hash_map_insert(ps, sz, key, value)
    ELSE [pairs |-> [ps EXCEPT ![existing_value].value = string_create_from(value)],
          size  |-> sz,
          ret   |-> TRUE]

RECURSIVE remove_scan(_, _, _, _, _)
remove_scan(ps, sz, key, pair, i) ==
    IF i >= Capacity THEN [pairs |-> ps, size |-> sz, ret |-> FALSE]
    ELSE IF ps[pair].key = key /\ ~string_empty(ps[pair].value)
         THEN [pairs |-> [ps EXCEPT ![pair].value = ""],
               size  |-> size_dec(sz),
               ret   |-> TRUE]
    ELSE remove_scan(ps, sz, key, advance(pair), i + 1)

\* remove that matches on the key alone, without the emptiness test
RECURSIVE remove_scan_key_only(_, _, _, _, _)
remove_scan_key_only(ps, sz, key, pair, i) ==
    IF i >= Capacity THEN [pairs |-> ps, size |-> sz, ret |-> FALSE]
    ELSE IF ps[pair].key = key
         THEN [pairs |-> [ps EXCEPT ![pair].value = ""],
               size  |-> size_dec(sz),
               ret   |-> TRUE]
    ELSE remove_scan_key_only(ps, sz, key, advance(pair), i + 1)

hash_map_remove_key_only(ps, sz, key) ==
    remove_scan_key_only(ps, sz, key, hash_map_hash(key), 0)

\* remove that empties the matched slot but forgets map->size--
hash_map_remove_no_decrement(ps, sz, key) ==
    LET r == remove_scan(ps, sz, key, hash_map_hash(key), 0) IN
    [pairs |-> r.pairs, size |-> sz, ret |-> r.ret]

hash_map_remove(ps, sz, key) == remove_scan(ps, sz, key, hash_map_hash(key), 0)

\* clear that resets the values but not the keys, as remove does
hash_map_clear_values_only(ps, sz) ==
    [pairs |-> [i \in Slots |-> [key |-> ps[i].key, value |-> ""]],
     size  |-> 0,
     ret   |-> TRUE]

hash_map_clear(ps, sz) ==
    [pairs |-> [i \in Slots |-> [key |-> 0, value |-> ""]],
     size  |-> 0,
     ret   |-> TRUE]

\* map->capacity: the extent of the slot array, set once at creation
hash_map_capacity(ps) == Cardinality(DOMAIN ps)

RECURSIVE first_scan(_, _, _)
first_scan(ps, pair, i) ==
    IF i >= Capacity THEN NULL
    ELSE IF ~string_empty(ps[pair].value) THEN pair
    ELSE first_scan(ps, pair + 1, i + 1)

hash_map_first(ps) == first_scan(ps, 0, 0)

\* a last() that walks upwards from the first slot
hash_map_last_ascending(ps) == first_scan(ps, 0, 0)

\* pair ranges over Capacity-1 down to -1; the pointer before the array
\* that the final pair-- of a fruitless scan forms is never dereferenced
RECURSIVE last_scan(_, _, _)
last_scan(ps, pair, i) ==
    IF i >= Capacity THEN NULL
    ELSE IF ~string_empty(ps[pair].value) THEN pair
    ELSE last_scan(ps, pair - 1, i + 1)

hash_map_last(ps) == last_scan(ps, Capacity - 1, 0)

\* next_pair ranges over 1..Capacity: pairs + capacity is wrapped before
\* it is dereferenced
RECURSIVE next_scan(_, _, _)
next_scan(ps, next_pair, i) ==
    IF i >= Capacity THEN NULL
    ELSE LET np == IF next_pair = Capacity THEN 0 ELSE next_pair IN
         IF ~string_empty(ps[np].value) THEN np
         ELSE next_scan(ps, np + 1, i + 1)

hash_map_next_pair(ps, pair) ==
    IF pair = NULL THEN NULL ELSE next_scan(ps, pair + 1, 1)

\* ------------------------------------------------------------------------
\* Derived notions used by the properties
\* ------------------------------------------------------------------------

occupied(ps, i) == ~string_empty(ps[i].value)

OccupiedSlots(ps) == {i \in Slots : occupied(ps, i)}

PresentKeys(ps) == {k \in Keys : hash_map_find(ps, k) # NULL}

Unpinned == [set |-> FALSE, value |-> ""]

NoOp == [op |-> "create", key |-> 0, value |-> "", ret |-> TRUE,
         pairs0 |-> [i \in Slots |-> [key |-> 0, value |-> ""]], size0 |-> 0,
         pin0 |-> Unpinned]

\* ------------------------------------------------------------------------
\* Initial state: hash_map_create_with(Capacity)
\* ------------------------------------------------------------------------
Init ==
    /\ pairs = [i \in Slots |-> [key |-> 0, value |-> ""]]
    /\ size = 0
    /\ lastOp = NoOp
    /\ prevOp = [op |-> "create", key |-> 0]
    /\ pinned = [k \in Keys |-> Unpinned]
    /\ cursor = NULL
    /\ visited = <<>>
    /\ trav = "idle"

\* ------------------------------------------------------------------------
\* Operations
\* ------------------------------------------------------------------------

\* the effect of one call on the map, recorded in lastOp
Apply(name, key, value, r) ==
    /\ pairs' = r.pairs
    /\ size' = r.size
    /\ lastOp' = [op |-> name, key |-> key, value |-> value, ret |-> r.ret,
                  pairs0 |-> pairs, size0 |-> size, pin0 |-> pinned[key]]

Insert(key, value) ==
    /\ Apply("insert", key, value, hash_map_insert(pairs, size, key, value))
    /\ UNCHANGED <<prevOp, pinned, cursor, visited, trav>>

InsertOrAssign(key, value) ==
    /\ Apply("insert_or_assign", key, value,
             hash_map_insert_or_assign(pairs, size, key, value))
    /\ UNCHANGED <<prevOp, pinned, cursor, visited, trav>>

Remove(key) ==
    /\ Apply("remove", key, "", hash_map_remove(pairs, size, key))
    /\ UNCHANGED <<prevOp, pinned, cursor, visited, trav>>

Clear ==
    /\ Apply("clear", 0, "", hash_map_clear(pairs, size))
    /\ UNCHANGED <<prevOp, pinned, cursor, visited, trav>>

Next ==
    \/ \E key \in Keys, value \in Values : Insert(key, value)
    \/ \E key \in Keys, value \in Values : InsertOrAssign(key, value)
    \/ \E key \in Keys : Remove(key)
    \/ Clear

Spec == Init /\ [][Next]_vars

\* ------------------------------------------------------------------------
\* Runs of hash_map_insert alone
\* ------------------------------------------------------------------------
NextInsertOnly ==
    \E key \in Keys, value \in Values : Insert(key, value)

SpecInsertOnly == Init /\ [][NextInsertOnly]_vars

\* ------------------------------------------------------------------------
\* Runs that remember the call before the last one, and which keys were
\* inserted with no remove, clear or insert_or_assign of them since
\* ------------------------------------------------------------------------
Remember == prevOp' = [op |-> lastOp.op, key |-> lastOp.key]

SeqInsert(key, value) ==
    LET r == hash_map_insert(pairs, size, key, value) IN
    /\ Apply("insert", key, value, r)
    /\ Remember
    /\ pinned' = IF r.ret /\ ~pinned[key].set
                 THEN [pinned EXCEPT ![key] = [set |-> TRUE, value |-> value]]
                 ELSE pinned
    /\ UNCHANGED <<cursor, visited, trav>>

SeqInsertOrAssign(key, value) ==
    /\ Apply("insert_or_assign", key, value,
             hash_map_insert_or_assign(pairs, size, key, value))
    /\ Remember
    /\ pinned' = [pinned EXCEPT ![key] = Unpinned]
    /\ UNCHANGED <<cursor, visited, trav>>

SeqRemove(key) ==
    /\ Apply("remove", key, "", hash_map_remove(pairs, size, key))
    /\ Remember
    /\ pinned' = [k \in Keys |-> Unpinned]
    /\ UNCHANGED <<cursor, visited, trav>>

SeqClear ==
    /\ Apply("clear", 0, "", hash_map_clear(pairs, size))
    /\ Remember
    /\ pinned' = [k \in Keys |-> Unpinned]
    /\ UNCHANGED <<cursor, visited, trav>>

NextSeq ==
    \/ \E key \in Keys, value \in Values : SeqInsert(key, value)
    \/ \E key \in Keys, value \in Values : SeqInsertOrAssign(key, value)
    \/ \E key \in Keys : SeqRemove(key)
    \/ SeqClear

SpecSeq == Init /\ [][NextSeq]_vars

\* ------------------------------------------------------------------------
\* Runs with a traversal: first(), then next() on the pair last returned.
\* A mutating call ends the traversal in progress.
\* ------------------------------------------------------------------------

\* a traversal is followed for at most this many returned pairs
MaxVisits == Capacity + 1

EndTraversal ==
    /\ cursor' = NULL
    /\ visited' = <<>>
    /\ trav' = "idle"

TravInsert(key, value) ==
    /\ Apply("insert", key, value, hash_map_insert(pairs, size, key, value))
    /\ EndTraversal
    /\ UNCHANGED <<prevOp, pinned>>

TravInsertOrAssign(key, value) ==
    /\ Apply("insert_or_assign", key, value,
             hash_map_insert_or_assign(pairs, size, key, value))
    /\ EndTraversal
    /\ UNCHANGED <<prevOp, pinned>>

TravRemove(key) ==
    /\ Apply("remove", key, "", hash_map_remove(pairs, size, key))
    /\ EndTraversal
    /\ UNCHANGED <<prevOp, pinned>>

TravClear ==
    /\ Apply("clear", 0, "", hash_map_clear(pairs, size))
    /\ EndTraversal
    /\ UNCHANGED <<prevOp, pinned>>

First ==
    LET p == hash_map_first(pairs) IN
    /\ cursor' = p
    /\ visited' = IF p = NULL THEN <<>> ELSE <<p>>
    /\ trav' = IF p = NULL THEN "done" ELSE "running"
    /\ UNCHANGED <<pairs, size, lastOp, prevOp, pinned>>

NextPair ==
    /\ trav = "running"
    /\ Len(visited) < MaxVisits
    /\ LET p == hash_map_next_pair(pairs, cursor) IN
       /\ cursor' = p
       /\ visited' = IF p = NULL THEN visited ELSE Append(visited, p)
       /\ trav' = IF p = NULL THEN "done" ELSE "running"
    /\ UNCHANGED <<pairs, size, lastOp, prevOp, pinned>>

NextTrav ==
    \/ \E key \in Keys, value \in Values : TravInsert(key, value)
    \/ \E key \in Keys, value \in Values : TravInsertOrAssign(key, value)
    \/ \E key \in Keys : TravRemove(key)
    \/ TravClear
    \/ First
    \/ NextPair

SpecTrav == Init /\ [][NextTrav]_vars

\* ------------------------------------------------------------------------
\* Runs with the read-only calls: find, first, last, and next of any pair
\* or of NULL.  cursor holds the pair the call returned; a mutating call
\* drops it.
\* ------------------------------------------------------------------------

\* a read-only call with argument arg that returned pair p
Query(name, arg, p) ==
    /\ lastOp' = [op |-> name, key |-> arg,
                  value |-> IF p = NULL THEN "" ELSE pairs[p].value,
                  ret |-> p # NULL,
                  pairs0 |-> pairs, size0 |-> size, pin0 |-> Unpinned]
    /\ cursor' = p
    /\ UNCHANGED <<pairs, size, prevOp, pinned, visited, trav>>

Find(key) == Query("find", key, hash_map_find(pairs, key))

QueryFirst == Query("first", 0, hash_map_first(pairs))

QueryLast == Query("last", 0, hash_map_last(pairs))

QueryNext(pair) == Query("next", pair, hash_map_next_pair(pairs, pair))

QueryInsert(key, value) ==
    /\ Apply("insert", key, value, hash_map_insert(pairs, size, key, value))
    /\ cursor' = NULL
    /\ UNCHANGED <<prevOp, pinned, visited, trav>>

QueryInsertOrAssign(key, value) ==
    /\ Apply("insert_or_assign", key, value,
             hash_map_insert_or_assign(pairs, size, key, value))
    /\ cursor' = NULL
    /\ UNCHANGED <<prevOp, pinned, visited, trav>>

QueryRemove(key) ==
    /\ Apply("remove", key, "", hash_map_remove(pairs, size, key))
    /\ cursor' = NULL
    /\ UNCHANGED <<prevOp, pinned, visited, trav>>

QueryClear ==
    /\ Apply("clear", 0, "", hash_map_clear(pairs, size))
    /\ cursor' = NULL
    /\ UNCHANGED <<prevOp, pinned, visited, trav>>

NextQuery ==
    \/ \E key \in Keys, value \in Values : QueryInsert(key, value)
    \/ \E key \in Keys, value \in Values : QueryInsertOrAssign(key, value)
    \/ \E key \in Keys : QueryRemove(key)
    \/ QueryClear
    \/ \E key \in Keys : Find(key)
    \/ QueryFirst
    \/ QueryLast
    \/ \E pair \in Slots \cup {NULL} : QueryNext(pair)

SpecQuery == Init /\ [][NextQuery]_vars

\* ------------------------------------------------------------------------
\* Properties
\* ------------------------------------------------------------------------

\* C1: an insert of a key that find reports present fails and leaves every
\* slot and size as they were.
C1_InsertOfPresentKeyIsNoOp ==
    (lastOp.op = "insert" /\ hash_map_find(lastOp.pairs0, lastOp.key) # NULL)
        => (~lastOp.ret /\ pairs = lastOp.pairs0 /\ size = lastOp.size0)

\* C2: after a remove that reports removed, find of that key is absent,
\* contains is false, and size is one less than before the call.
C2_RemoveThenFindAbsent ==
    (lastOp.op = "remove" /\ lastOp.ret)
        => /\ ~find_value(pairs, lastOp.key).found
           /\ ~hash_map_contains(pairs, lastOp.key)
           /\ size = lastOp.size0 - 1

\* C3: first() then next() repeatedly returns each slot at most once and
\* only occupied slots, in ascending slot order (next returns absent when
\* no occupied slot lies after its argument), and ends with absent after
\* exactly size slots whose keys are the keys find reports present.
C3_TraversalComplete ==
    /\ \A i, j \in 1 .. Len(visited) : i < j => visited[i] < visited[j]
    /\ \A i \in 1 .. Len(visited) : occupied(pairs, visited[i])
    /\ Len(visited) <= size
    /\ trav = "done" =>
          /\ Len(visited) = size
          /\ {pairs[visited[i]].key : i \in 1 .. Len(visited)} = PresentKeys(pairs)

\* C4: a successful hash_map_insert never brings size to capacity, and the
\* insert made at size = capacity - 1 is rejected.
C4_LastSlotNeverFilled ==
    /\ size # Capacity
    /\ (lastOp.op = "insert" /\ lastOp.size0 = Capacity - 1) => ~lastOp.ret

\* C4 (amended): hash_map_insert is refused as full only at size = capacity:
\* at size < capacity the insert of a key that no occupied slot holds
\* succeeds and adds one to size, the insert at size = capacity - 1 included,
\* and size never exceeds capacity.
C4_InsertFillsLastSlot ==
    /\ size <= Capacity
    /\ (/\ lastOp.op = "insert"
        /\ lastOp.size0 < Capacity
        /\ \A i \in OccupiedSlots(lastOp.pairs0) : lastOp.pairs0[i].key # lastOp.key)
        => (lastOp.ret /\ size = lastOp.size0 + 1)

\* the insert that fills the last slot: capacity distinct keys, size = capacity
C4_Witness ==
    /\ lastOp.op = "insert"
    /\ lastOp.ret
    /\ lastOp.size0 = Capacity - 1
    /\ size = Capacity
    /\ Cardinality({pairs[i].key : i \in OccupiedSlots(pairs)}) = Capacity

\* C5: after an insert that reports success, find of the key returns the
\* inserted value and contains is true.
C5_InsertThenFind ==
    (lastOp.op = "insert" /\ lastOp.ret)
        => /\ find_value(pairs, lastOp.key) = [found |-> TRUE, value |-> lastOp.value]
           /\ hash_map_contains(pairs, lastOp.key)

\* C6: an insert of a key whose earlier insert succeeded, with no remove,
\* clear or insert_or_assign of that key since, fails, and find still
\* returns the value of the earlier insert.
C6_DuplicateInsertFails ==
    (lastOp.op = "insert" /\ lastOp.pin0.set)
        => /\ ~lastOp.ret
           /\ find_value(pairs, lastOp.key) =
                 [found |-> TRUE, value |-> lastOp.pin0.value]

\* C7: size is the number of slots whose value is not the empty text.
C7_SizeCountsOccupied ==
    size = Cardinality(OccupiedSlots(pairs))

\* C8: size stays within 0..capacity, and a remove that reports removed
\* started from a size of at least one (no wrap of the unsigned counter).
C8_SizeWithinCapacity ==
    /\ size >= 0
    /\ size <= Capacity
    /\ (lastOp.op = "remove" /\ lastOp.ret)
          => (lastOp.size0 >= 1 /\ size = lastOp.size0 - 1)

\* a remove that took size down from capacity
C8_Witness ==
    /\ lastOp.op = "remove"
    /\ lastOp.ret
    /\ lastOp.size0 = Capacity
    /\ size = Capacity - 1

\* C9: an insert called at size = capacity reports failure and leaves every
\* slot and size as they were.
C9_InsertWhenFullIsNoOp ==
    (lastOp.op = "insert" /\ lastOp.size0 = Capacity)
        => (~lastOp.ret /\ pairs = lastOp.pairs0 /\ size = lastOp.size0)

\* an insert of a key not in the map, refused at size = capacity
C9_Witness ==
    /\ lastOp.op = "insert"
    /\ lastOp.size0 = Capacity
    /\ ~lastOp.ret
    /\ hash_map_find(lastOp.pairs0, lastOp.key) = NULL

\* C10: after insert_or_assign(k, v1) directly followed by
\* insert_or_assign(k, v2), find(k) returns v2 and size is what it was
\* between the two calls.
C10_AssignTwice ==
    (/\ lastOp.op = "insert_or_assign"
     /\ prevOp.op = "insert_or_assign"
     /\ prevOp.key = lastOp.key)
        => /\ find_value(pairs, lastOp.key) = [found |-> TRUE, value |-> lastOp.value]
           /\ size = lastOp.size0

\* C11: at size = capacity, insert_or_assign of a key that find reports
\* present returns true, stores the value in the slot find returns, changes
\* no other slot and leaves size as it was (a non-empty value is then what
\* find returns); insert_or_assign of a key that find reports absent returns
\* false and changes nothing.
C11_AssignWhenFull ==
    (lastOp.op = "insert_or_assign" /\ lastOp.size0 = Capacity)
        => LET p == hash_map_find(lastOp.pairs0, lastOp.key) IN
           IF p # NULL
           THEN /\ lastOp.ret
                /\ pairs = [lastOp.pairs0 EXCEPT ![p].value = lastOp.value]
                /\ size = lastOp.size0
                /\ lastOp.value # "" =>
                      find_value(pairs, lastOp.key) =
                          [found |-> TRUE, value |-> lastOp.value]
           ELSE /\ ~lastOp.ret
                /\ pairs = lastOp.pairs0
                /\ size = lastOp.size0

\* a full map, every slot occupied, in which a present key got another value
C11_Witness ==
    /\ lastOp.op = "insert_or_assign"
    /\ lastOp.size0 = Capacity
    /\ OccupiedSlots(lastOp.pairs0) = Slots
    /\ lastOp.ret
    /\ find_value(lastOp.pairs0, lastOp.key) = [found |-> TRUE, value |-> "a"]
    /\ find_value(pairs, lastOp.key) = [found |-> TRUE, value |-> "b"]

\* C12: a remove of a key that find reports absent returns false and leaves
\* size and every slot as they were.
C12_RemoveAbsentIsNoOp ==
    (lastOp.op = "remove" /\ hash_map_find(lastOp.pairs0, lastOp.key) = NULL)
        => (~lastOp.ret /\ pairs = lastOp.pairs0 /\ size = lastOp.size0)

\* a remove of an absent key from a non-empty map in which an emptied slot
\* still carries that key
C12_Witness ==
    /\ lastOp.op = "remove"
    /\ ~lastOp.ret
    /\ OccupiedSlots(lastOp.pairs0) # {}
    /\ lastOp.key # 0
    /\ \E i \in Slots : lastOp.pairs0[i].key = lastOp.key

C14_RemoveKeepsOtherKeys ==
    (lastOp.op = "remove" /\ lastOp.ret)
        => \A j \in Keys \ {lastOp.key} :
              find_value(pairs, j) = find_value(lastOp.pairs0, j)

\* the removed key sat in the home slot of another key that is still found,
\* behind the slot just emptied
C14_Witness ==
    /\ lastOp.op = "remove"
    /\ lastOp.ret
    /\ \E j \in Keys \ {lastOp.key} :
          /\ hash_map_hash(j) = hash_map_hash(lastOp.key)
          /\ lastOp.pairs0[hash_map_hash(j)].key = lastOp.key
          /\ ~occupied(pairs, hash_map_hash(j))
          /\ find_value(pairs, j).found

\* C15: find returns the first slot, in probe order from the key's home slot
\* and wrapping, that is occupied and holds the key, whatever empty slots
\* come before it; it returns absent iff no occupied slot of the table holds
\* the key.
C15_FindFirstInProbeOrder ==
    (lastOp.op = "find")
        => LET k == lastOp.key
               slot(d) == (hash_map_hash(k) + d) % Capacity
               hits == {d \in 0 .. (Capacity - 1) :
                           pairs[slot(d)].key = k /\ occupied(pairs, slot(d))}
           IN  /\ lastOp.ret <=> (\E i \in OccupiedSlots(pairs) : pairs[i].key = k)
               /\ lastOp.ret <=> (cursor # NULL)
               /\ hits # {} =>
                     /\ \E d \in hits :
                           /\ \A e \in hits : d <= e
                           /\ cursor = slot(d)
                     /\ lastOp.value = pairs[cursor].value

\* a find that went past the key's empty home slot and found the key
C15_Witness ==
    /\ lastOp.op = "find"
    /\ lastOp.ret
    /\ cursor # hash_map_hash(lastOp.key)
    /\ ~occupied(pairs, hash_map_hash(lastOp.key))

\* C16: a remove that matches a slot leaves that slot with key zero and the
\* empty value, takes one off size, and changes no other slot.
C16_RemoveResetsSlot ==
    (lastOp.op = "remove" /\ lastOp.ret)
        => LET p == hash_map_find(lastOp.pairs0, lastOp.key) IN
           /\ pairs = [lastOp.pairs0 EXCEPT ![p] = [key |-> 0, value |-> ""]]
           /\ size = lastOp.size0 - 1

\* C16 (amended): a remove that matches a slot sets that slot's value to
\* empty and leaves its key as it was, takes one off size, and changes no
\* other slot.
C16_RemoveEmptiesValue ==
    (lastOp.op = "remove" /\ lastOp.ret)
        => LET p == hash_map_find(lastOp.pairs0, lastOp.key) IN
           /\ p # NULL
           /\ pairs = [lastOp.pairs0 EXCEPT ![p] = [key |-> lastOp.key, value |-> ""]]
           /\ pairs[p].key = lastOp.pairs0[p].key
           /\ size = lastOp.size0 - 1

\* a remove of a non-zero key from a map holding another key as well
C16_Witness ==
    /\ lastOp.op = "remove"
    /\ lastOp.ret
    /\ lastOp.key # 0
    /\ OccupiedSlots(pairs) # {}
    /\ \E i \in Slots : ~occupied(pairs, i) /\ pairs[i].key = lastOp.key

\* C17: an insert that reports success writes {key, value} into the first
\* empty slot in probe order from key mod capacity, wrapping, adds exactly
\* one to size, and leaves every other slot as it was.
C17_InsertWritesFirstEmpty ==
    (lastOp.op = "insert" /\ lastOp.ret)
        => LET k == lastOp.key
               slot(d) == ((k % Capacity) + d) % Capacity
               free == {d \in 0 .. (Capacity - 1) :
                           ~occupied(lastOp.pairs0, slot(d))}
           IN  /\ free # {}
               /\ \E d \in free :
                     /\ \A e \in free : d <= e
                     /\ pairs = [lastOp.pairs0 EXCEPT ![slot(d)] =
                                    [key |-> k, value |-> lastOp.value]]
               /\ size = lastOp.size0 + 1

\* an insert that found its home slot taken and wrapped to a lower slot
C17_Witness ==
    /\ lastOp.op = "insert"
    /\ lastOp.ret
    /\ lastOp.value # ""
    /\ occupied(lastOp.pairs0, hash_map_hash(lastOp.key))
    /\ \E i \in Slots :
          /\ i < hash_map_hash(lastOp.key)
          /\ ~occupied(lastOp.pairs0, i)
          /\ pairs[i] = [key |-> lastOp.key, value |-> lastOp.value]

\* C18: whenever the load-factor guard lets an insert through, the scan ends
\* at an empty slot or at an occupied slot with the same key; the return
\* after the loop is never taken, for the insert just made and for any
\* insert that could be made next.
C18_ScanNeverExhausted ==
    /\ (lastOp.op = "insert" /\ ~map_is_full(lastOp.size0))
          => insert_scan_exit(lastOp.pairs0, lastOp.key,
                              hash_map_hash(lastOp.key), 0) # "exhausted"
    /\ ~map_is_full(size)
          => \A k \in Keys :
                insert_scan_exit(pairs, k, hash_map_hash(k), 0) # "exhausted"

\* an insert that passed the guard and scanned every other slot before it
\* found the only empty one
C18_Witness ==
    /\ lastOp.op = "insert"
    /\ ~map_is_full(lastOp.size0)
    /\ lastOp.ret
    /\ Cardinality(OccupiedSlots(lastOp.pairs0)) = Capacity - 1
    /\ ~occupied(lastOp.pairs0, (hash_map_hash(lastOp.key) + Capacity - 1) % Capacity)

\* C19: first returns the occupied slot with the lowest index, last the
\* occupied slot with the highest index, each absent iff no slot is
\* occupied; next of absent is absent.
C19_FirstLowestLastHighest ==
    LET occ == OccupiedSlots(pairs) IN
    /\ lastOp.op = "first" =>
          IF occ = {} THEN cursor = NULL
          ELSE cursor \in occ /\ \A i \in occ : cursor <= i
    /\ lastOp.op = "last" =>
          IF occ = {} THEN cursor = NULL
          ELSE cursor \in occ /\ \A i \in occ : cursor >= i
    /\ (lastOp.op = "next" /\ lastOp.key = NULL) => cursor = NULL

\* a last() that skipped the empty top slot and returned a lower one
C19_Witness ==
    /\ lastOp.op = "last"
    /\ cursor # NULL
    /\ cursor # Capacity - 1

\* C20: no two occupied slots hold the same key.
C20_KeysUnique ==
    \A i, j \in OccupiedSlots(pairs) : pairs[i].key = pairs[j].key => i = j

====
